---- MODULE Spec2Model ----
(***************************************************************************)
(* Campus Policy Assistant: the vector store manager (vectorstore.py),     *)
(* the chat database (database.py) and the Streamlit session script        *)
(* (app.py), as state machines.                                            *)
(*                                                                         *)
(* Text is a sequence of sentence tokens (naturals); every token stands    *)
(* for one unit of length.  A PDF is a sequence of pages of text.          *)
(***************************************************************************)
EXTENDS Integers, Sequences, FiniteSets, TLC

\* ------------------------------------------------------------- config.py

K_RETRIEVER == 5
RECURSIVE_CHUNK_SIZE == 1000
RECURSIVE_CHUNK_OVERLAP == 150
FIXED_CHUNK_SIZE == 800
FIXED_CHUNK_OVERLAP == 100
SEMANTIC_N_CLUSTERS == 10
DEFAULT_CHUNKING_STRATEGY == "recursive"
DEFAULT_SEARCH_STRATEGY == "hybrid"

\* ------------------------------------------------------------- bounds

\* longest directory listing of ADMIN_DOCS_PATH
MaxAdminFiles == 2
\* longest file_paths list handed to create_user_vectorstore
MaxUserFiles == 2

\* ------------------------------------------------------------- files

\* directory 0 is ADMIN_DOCS_PATH, directory c > 0 is USER_UPLOADS_PATH/<c>
ADMIN_DIR == 0

FileNames == {"a.pdf", "b.pdf", "blank.pdf", "bad.pdf", "gone.pdf", "notes.txt",
              "long.pdf", "huge.pdf"}

\* filename.endswith(".pdf")
EndsWithPdf(name) == name # "notes.txt"

\* whether PyPDFLoader(file).load() returns (FALSE: it raises)
PdfReadable(name) == name \in {"a.pdf", "b.pdf", "blank.pdf", "long.pdf", "huge.pdf"}

\* the extracted text of each page of a readable PDF; a text is the sequence
\* of its sentences, each a number and one unit long. long.pdf has as many
\* sentences as SEMANTIC_N_CLUSTERS, huge.pdf one page longer than a chunk
PdfPages(name) ==
    CASE name = "a.pdf" -> << <<1>> >>
      [] name = "b.pdf" -> << <<2, 3>> >>
      [] name = "blank.pdf" -> << <<>> >>
      [] name = "long.pdf" -> << <<11, 12, 13, 14, 15>>, <<21, 22, 23, 24, 25>> >>
      [] name = "huge.pdf" -> << [i \in 1..(RECURSIVE_CHUNK_SIZE + 1) |-> 30 + (i % 2)] >>
      [] OTHER -> <<>>

Path(dir, name) == [dir |-> dir, name |-> name]

\* a Document built without metadata has no source
NoSource == [dir |-> -1, name |-> ""]

Document(text, source) == [page_content |-> text, source |-> source]

\* PyPDFLoader(file_path).load(): one Document per page, source = file_path
PyPDFLoader_load(path) ==
    [i \in 1..Len(PdfPages(path.name)) |->
        Document(PdfPages(path.name)[i], path)]

\* all sequences without repetition over S of length at most n
Range(q) == {q[i] : i \in 1..Len(q)}

RECURSIVE SeqsUpTo(_, _)
SeqsUpTo(S, n) ==
    IF n = 0 THEN {<<>>}
    ELSE LET shorter == SeqsUpTo(S, n - 1)
             longest == {q \in shorter : Len(q) = n - 1}
         IN  shorter \cup
             UNION {{Append(q, x) : x \in S \ Range(q)} : q \in longest}

\* ------------------------------------------------------------- chunking

\* a text splitter on one text: windows of at most `size` units, consecutive
\* windows sharing `overlap` units; an empty text yields no chunk
RECURSIVE SplitText(_, _, _)
SplitText(text, size, overlap) ==
    IF Len(text) = 0 THEN <<>>
    ELSE IF Len(text) <= size THEN <<text>>
    ELSE <<SubSeq(text, 1, size)>> \o
         SplitText(SubSeq(text, size - overlap + 1, Len(text)), size, overlap)

\* TextSplitter.split_documents: every chunk keeps its document's metadata
RECURSIVE split_documents(_, _, _)
split_documents(documents, size, overlap) ==
    IF documents = <<>> THEN <<>>
    ELSE LET d == Head(documents)
             parts == SplitText(d.page_content, size, overlap)
         IN  [i \in 1..Len(parts) |-> Document(parts[i], d.source)] \o
             split_documents(Tail(documents), size, overlap)

recursive_chunking(documents) ==
    split_documents(documents, RECURSIVE_CHUNK_SIZE, RECURSIVE_CHUNK_OVERLAP)

fixed_size_chunking(documents) ==
    split_documents(documents, FIXED_CHUNK_SIZE, FIXED_CHUNK_OVERLAP)

\* ". ".join(page_content of every document), split on ". ", blanks dropped
RECURSIVE Sentences(_)
Sentences(documents) ==
    IF documents = <<>> THEN <<>>
    ELSE Head(documents).page_content \o Sentences(Tail(documents))

\* kmeans.labels_[i]: the cluster of a sentence is a function of its embedding
KMeansLabel(sentence) == sentence % SEMANTIC_N_CLUSTERS

\* as SelectLabel, a cluster's sentences collected last to first
SelectLabel_reversed(sentences, c) ==
    LET chunk == SelectSeq(sentences, LAMBDA x : KMeansLabel(x) = c)
    IN  [i \in 1..Len(chunk) |-> chunk[Len(chunk) + 1 - i]]

\* chunks[cluster_id]: the sentences of cluster c, in the order of the text
SelectLabel(sentences, c) ==
    SelectSeq(sentences, LAMBDA x : KMeansLabel(x) = c)

RECURSIVE ClusterChunks(_, _)
ClusterChunks(sentences, c) ==
    IF c >= SEMANTIC_N_CLUSTERS THEN <<>>
    ELSE (IF SelectLabel(sentences, c) # <<>>
          THEN <<Document(SelectLabel(sentences, c), NoSource)>> ELSE <<>>)
         \o ClusterChunks(sentences, c + 1)

\* as semantic_chunking, the sentences clustered however few they are
semantic_chunking_always_clusters(documents, sklearn) ==
    IF ~sklearn THEN recursive_chunking(documents)
    ELSE ClusterChunks(Sentences(documents), 0)

semantic_chunking(documents, sklearn) ==
    IF ~sklearn THEN recursive_chunking(documents)
    ELSE LET sentences == Sentences(documents)
         IN  IF sentences = <<>> \/ Len(sentences) < SEMANTIC_N_CLUSTERS
             THEN recursive_chunking(documents)
             ELSE ClusterChunks(sentences, 0)

get_chunks(documents, strategy, sklearn) ==
    IF strategy = "semantic" THEN semantic_chunking(documents, sklearn)
    ELSE IF strategy = "fixed_size" THEN fixed_size_chunking(documents)
    ELSE recursive_chunking(documents)

\* what _semantic_chunking prints (lines 42, 46, and line 69 of the fallback)
semantic_chunking_prints(documents, sklearn) ==
    <<"Performing semantic chunking...">> \o
    (IF ~sklearn
     THEN <<"Scikit-learn is not installed. Falling back to recursive chunking.",
            "Performing recursive chunking...">>
     ELSE IF Sentences(documents) = <<>>
             \/ Len(Sentences(documents)) < SEMANTIC_N_CLUSTERS
     THEN <<"Performing recursive chunking...">>
     ELSE <<>>)

\* what get_chunks prints
get_chunks_prints(documents, strategy, sklearn) ==
    IF strategy = "semantic" THEN semantic_chunking_prints(documents, sklearn)
    ELSE IF strategy = "fixed_size" THEN <<"Performing fixed-size chunking...">>
    ELSE <<"Performing recursive chunking...">>

ChunkingStrategies == {"recursive", "fixed_size", "semantic"}
SearchStrategies == {"hybrid", "similarity", "mmr"}

\* ------------------------------------------------------------- FAISS stores

Faiss(docs) == [kind |-> "faiss", docs |-> docs]
NoneVS == [kind |-> "none", docs |-> <<>>]
\* the exception FAISS raises when asked to index an empty list
IndexError == [kind |-> "error", docs |-> <<>>]

\* "This is a placeholder document for an empty admin store."
PlaceholderText == <<0>>

\* FAISS.from_documents: "FAISS requires at least one document"
FAISS_from_documents(chunks) ==
    IF chunks = <<>> THEN IndexError ELSE Faiss(chunks)

\* FAISS.from_texts: Documents without metadata
FAISS_from_texts(texts) ==
    FAISS_from_documents([i \in 1..Len(texts) |-> Document(texts[i], NoSource)])

\* vectorstore.save_local(path) / FAISS.load_local(path): the docstore is
\* pickled to the directory and read back
save_local(vectorstore) == [kind |-> "saved", docs |-> vectorstore.docs]
NotPersisted == [kind |-> "absent", docs |-> <<>>]
FAISS_load_local(saved) == Faiss(saved.docs)

\* ------------------------------------------------------------- VectorStoreManager

RECURSIVE load_documents_from_path(_, _)
load_documents_from_path(dir, listing) ==
    IF listing = <<>> THEN <<>>
    ELSE LET filename == Head(listing)
             rest == load_documents_from_path(dir, Tail(listing))
         IN  IF EndsWithPdf(filename) /\ PdfReadable(filename)
             THEN PyPDFLoader_load(Path(dir, filename)) \o rest
             ELSE rest

\* returns the store (or the exception), the persisted index afterwards and
\* the path taken
load_or_create_admin_vectorstore(saved, listing, sklearn) ==
    IF saved.kind = "saved"
    THEN [store |-> FAISS_load_local(saved), persisted |-> saved, path |-> "load"]
    ELSE LET admin_docs == load_documents_from_path(ADMIN_DIR, listing)
         IN  IF admin_docs = <<>>
             THEN [store |-> FAISS_from_texts(<<PlaceholderText>>),
                   persisted |-> saved, path |-> "build"]
             ELSE LET chunks == get_chunks(admin_docs, DEFAULT_CHUNKING_STRATEGY, sklearn)
                      vectorstore == FAISS_from_documents(chunks)
                  IN  IF vectorstore.kind = "error"
                      THEN [store |-> vectorstore, persisted |-> saved, path |-> "build"]
                      ELSE [store |-> vectorstore,
                            persisted |-> save_local(vectorstore), path |-> "build"]

RECURSIVE LoadUserDocuments(_, _)
LoadUserDocuments(file_paths, files) ==
    IF file_paths = <<>> THEN <<>>
    ELSE LET path == Head(file_paths)
             rest == LoadUserDocuments(Tail(file_paths), files)
         IN  IF path \in files /\ EndsWithPdf(path.name) /\ PdfReadable(path.name)
             THEN PyPDFLoader_load(path) \o rest
             ELSE rest

create_user_vectorstore(file_paths, chunking_strategy, files, sklearn) ==
    IF file_paths = <<>> THEN NoneVS
    ELSE LET documents == LoadUserDocuments(file_paths, files)
         IN  IF documents = <<>> THEN NoneVS
             ELSE FAISS_from_documents(get_chunks(documents, chunking_strategy, sklearn))

\* ------------------------------------------------------------- retrievers

Half == [num |-> 1, den |-> 2]

\* vectorstore.as_retriever(search_type=..., search_kwargs={"k": K_RETRIEVER});
\* `ref` names the store object the retriever searches
as_retriever(ref, vectorstore, search_type) ==
    [kind |-> "vector", ref |-> ref, docs |-> vectorstore.docs,
     search_type |-> search_type, k |-> K_RETRIEVER]

\* BM25Retriever.from_documents(docs) with k = K_RETRIEVER
BM25Retriever_from_documents(docs) ==
    [kind |-> "bm25", docs |-> docs, k |-> K_RETRIEVER]

EnsembleRetriever(retrievers, weights) ==
    [kind |-> "ensemble", retrievers |-> retrievers, weights |-> weights]

NoRetriever == [kind |-> "none"]

\* lines 138-140: the documents of the admin store, then those of the user store
AllDocs(admin_vectorstore, user_vs) ==
    admin_vectorstore.docs \o
    (IF user_vs.kind = "faiss" THEN user_vs.docs ELSE <<>>)

\* as retriever_without_user, the mmr branch forgotten
retriever_without_user_no_mmr(admin_vectorstore, all_docs, search_type) ==
    LET admin_retriever == as_retriever("admin", admin_vectorstore, "similarity")
    IN  IF search_type = "hybrid" /\ Len(all_docs) > 1
        THEN EnsembleRetriever(
                 <<admin_retriever, BM25Retriever_from_documents(all_docs)>>,
                 <<Half, Half>>)
        ELSE admin_retriever

\* as retriever_without_user, hybrid handled only when a user store is given
retriever_without_user_no_hybrid(admin_vectorstore, all_docs, search_type) ==
    LET admin_retriever == as_retriever("admin", admin_vectorstore, "similarity")
    IN  IF search_type = "mmr"
        THEN as_retriever("admin", admin_vectorstore, "mmr")
        ELSE admin_retriever

\* lines 143-150: no user store
retriever_without_user(admin_vectorstore, all_docs, search_type) ==
    LET admin_retriever == as_retriever("admin", admin_vectorstore, "similarity")
    IN  IF search_type = "hybrid" /\ Len(all_docs) > 1
        THEN EnsembleRetriever(
                 <<admin_retriever, BM25Retriever_from_documents(all_docs)>>,
                 <<Half, Half>>)
        ELSE IF search_type = "mmr"
        THEN as_retriever("admin", admin_vectorstore, "mmr")
        ELSE admin_retriever

\* as retriever_with_user, the non-hybrid case answering from the user store
\* alone
retriever_with_user_only(admin_vectorstore, user_vs, all_docs, search_type) ==
    LET user_retriever == as_retriever("user", user_vs, "similarity")
    IN  IF search_type = "hybrid" /\ Len(all_docs) > 1
        THEN LET combined_vs == FAISS_from_documents(all_docs)
                 faiss_retriever ==
                     as_retriever("combined", combined_vs, "similarity")
             IN  EnsembleRetriever(
                     <<faiss_retriever, BM25Retriever_from_documents(all_docs)>>,
                     <<Half, Half>>)
        ELSE user_retriever

\* as retriever_with_user, the lexical index built over the admin documents only
retriever_with_user_bm25_admin(admin_vectorstore, user_vs, all_docs, search_type) ==
    LET admin_retriever == as_retriever("admin", admin_vectorstore, "similarity")
        user_retriever == as_retriever("user", user_vs, "similarity")
    IN  IF search_type = "hybrid" /\ Len(all_docs) > 1
        THEN LET combined_vs == FAISS_from_documents(all_docs)
                 faiss_retriever ==
                     as_retriever("combined", combined_vs, "similarity")
             IN  EnsembleRetriever(
                     <<faiss_retriever,
                       BM25Retriever_from_documents(admin_vectorstore.docs)>>,
                     <<Half, Half>>)
        ELSE EnsembleRetriever(<<admin_retriever, user_retriever>>, <<Half, Half>>)

\* lines 152-168: a user store is provided
retriever_with_user(admin_vectorstore, user_vs, all_docs, search_type) ==
    LET admin_retriever == as_retriever("admin", admin_vectorstore, "similarity")
        user_retriever == as_retriever("user", user_vs, "similarity")
    IN  IF search_type = "hybrid" /\ Len(all_docs) > 1
        THEN LET combined_vs == FAISS_from_documents(all_docs)
                 faiss_retriever ==
                     as_retriever("combined", combined_vs, "similarity")
             IN  EnsembleRetriever(
                     <<faiss_retriever, BM25Retriever_from_documents(all_docs)>>,
                     <<Half, Half>>)
        ELSE EnsembleRetriever(<<admin_retriever, user_retriever>>, <<Half, Half>>)

\* as get_retriever, the combined store of the hybrid case made by merging the
\* user store into the admin store in place (admin_vectorstore.merge_from)
get_retriever_merging(admin_vectorstore, user_vs, search_type) ==
    LET all_docs == AllDocs(admin_vectorstore, user_vs)
    IN  [retriever |->
            IF user_vs.kind # "faiss"
            THEN retriever_without_user(admin_vectorstore, all_docs, search_type)
            ELSE retriever_with_user(admin_vectorstore, user_vs, all_docs,
                                     search_type),
         admin_vectorstore |->
            IF user_vs.kind = "faiss" /\ search_type = "hybrid"
            THEN Faiss(all_docs) ELSE admin_vectorstore,
         user_vs |-> user_vs]

\* what get_retriever prints: it has no print statement
get_retriever_prints(admin_vectorstore, user_vs, search_type) == <<>>

\* get_retriever(user_vs, search_type) on a manager whose admin store is
\* admin_vectorstore: the retriever returned, and both stores as the call
\* leaves them
get_retriever(admin_vectorstore, user_vs, search_type) ==
    LET all_docs == AllDocs(admin_vectorstore, user_vs)
    IN  [retriever |->
            IF user_vs.kind # "faiss"
            THEN retriever_without_user(admin_vectorstore, all_docs, search_type)
            ELSE retriever_with_user(admin_vectorstore, user_vs, all_docs,
                                     search_type),
         admin_vectorstore |-> admin_vectorstore,
         user_vs |-> user_vs]

\* ------------------------------------------------------------- database.py

\* hashlib.sha256(password.encode()).hexdigest()
hash_password(password) == <<"sha256", password>>

\* the tables after _create_tables; last_chat_id is the AUTOINCREMENT counter
\* of chats, rows of messages and uploads are kept in id order
EmptyDb == [users |-> <<>>, chats |-> <<>>, last_chat_id |-> 0,
            messages |-> <<>>, uploads |-> <<>>]

RECURSIVE SelectRows(_, _)
SelectRows(rows, chat_id) ==
    IF rows = <<>> THEN <<>>
    ELSE (IF Head(rows).chat_id = chat_id THEN <<Head(rows)>> ELSE <<>>)
         \o SelectRows(Tail(rows), chat_id)

RECURSIVE DeleteRows(_, _)
DeleteRows(rows, chat_id) ==
    IF rows = <<>> THEN <<>>
    ELSE (IF Head(rows).chat_id = chat_id THEN <<>> ELSE <<Head(rows)>>)
         \o DeleteRows(Tail(rows), chat_id)

\* signup: the database afterwards and whether the user was added
signup(db, username, password) ==
    IF username = "" \/ password = "" THEN [db |-> db, success |-> FALSE]
    ELSE IF \E i \in 1..Len(db.users) : db.users[i].username = username
    THEN [db |-> db, success |-> FALSE]
    ELSE [db |-> [db EXCEPT !.users =
                     Append(@, [username |-> username,
                                password_hash |-> hash_password(password)])],
          success |-> TRUE]

\* login: the user's id (his row number), 0 for None
login(db, username, password) ==
    LET hits == {i \in 1..Len(db.users) :
                    /\ db.users[i].username = username
                    /\ db.users[i].password_hash = hash_password(password)}
    IN  IF hits = {} THEN 0 ELSE CHOOSE i \in hits : TRUE

\* create_chat: the database afterwards and cursor.lastrowid
create_chat(db, user_id) ==
    LET id == db.last_chat_id + 1
    IN  [db |-> [db EXCEPT !.chats = Append(@, [id |-> id, user_id |-> user_id]),
                           !.last_chat_id = id],
         id |-> id]

\* as get_user_chats, the WHERE user_id = ? clause forgotten
get_user_chats_all(db, user_id) ==
    {db.chats[i].id : i \in 1..Len(db.chats)}

\* get_user_chats: the ids of the user's chats (the order of the list does
\* not matter to the script, which draws one pair of buttons per chat)
get_user_chats(db, user_id) ==
    {db.chats[i].id : i \in {j \in 1..Len(db.chats) : db.chats[j].user_id = user_id}}

get_chat_history(db, chat_id) ==
    LET rows == SelectRows(db.messages, chat_id)
    IN  [i \in 1..Len(rows) |-> [type |-> rows[i].role, content |-> rows[i].content]]

\* as add_message, the new row put before the rows there are
add_message_first(db, chat_id, role, content) ==
    [db EXCEPT !.messages =
        <<[chat_id |-> chat_id, role |-> role, content |-> content]>> \o @]

add_message(db, chat_id, role, content) ==
    [db EXCEPT !.messages =
        Append(@, [chat_id |-> chat_id, role |-> role, content |-> content])]

RECURSIVE DeleteChatRow(_, _)
DeleteChatRow(rows, chat_id) ==
    IF rows = <<>> THEN <<>>
    ELSE (IF Head(rows).id = chat_id THEN <<>> ELSE <<Head(rows)>>)
         \o DeleteChatRow(Tail(rows), chat_id)

\* as delete_chat, the messages deleted without the WHERE clause
delete_chat_all_messages(db, chat_id) ==
    [db EXCEPT !.messages = <<>>,
               !.uploads = DeleteRows(@, chat_id),
               !.chats = DeleteChatRow(@, chat_id)]

\* as delete_chat, the DELETE FROM uploads statement forgotten
delete_chat_keeping_uploads(db, chat_id) ==
    [db EXCEPT !.messages = DeleteRows(@, chat_id),
               !.chats = DeleteChatRow(@, chat_id)]

delete_chat(db, chat_id) ==
    [db EXCEPT !.messages = DeleteRows(@, chat_id),
               !.uploads = DeleteRows(@, chat_id),
               !.chats = DeleteChatRow(@, chat_id)]

add_upload(db, chat_id, file_path) ==
    [db EXCEPT !.uploads = Append(@, [chat_id |-> chat_id, file_path |-> file_path])]

get_uploads_for_chat(db, chat_id) ==
    LET rows == SelectRows(db.uploads, chat_id)
    IN  [i \in 1..Len(rows) |-> rows[i].file_path]

\* ------------------------------------------------------------- app.py

\* LLMManager.get_rag_chain(retriever): the chain retrieves with `retriever`
get_rag_chain(r) == [kind |-> "rag_chain", retriever |-> r]
NoChain == [kind |-> "none", retriever |-> NoRetriever]

\* st.session_state after _initialize_session_state on a new session;
\* 0 stands for None in user_id and current_chat_id
SessionDefaults ==
    [keys |-> TRUE, logged_in |-> FALSE, user_id |-> 0, current_chat_id |-> 0,
     chat_history |-> <<>>, user_vector_store |-> NoneVS, rag_chain |-> NoChain]

\* st.session_state with no key set: a new session, or one after Logout
NoKeys == [SessionDefaults EXCEPT !.keys = FALSE]

initialize_session_state(st) == IF st.keys THEN st ELSE SessionDefaults

\* the widget event that started a script run
Event(type, chat_id, username, password, query) ==
    [type |-> type, chat_id |-> chat_id, username |-> username,
     password |-> password, query |-> query]
NoEvent == Event("none", 0, "", "", "")

\* lines 79-90: every uploaded file is written to the chat's directory and
\* recorded unless its path is recorded already; a failing write is reported
\* and the file skipped
RECURSIVE SaveUploads(_, _, _, _, _)
SaveUploads(db, files, chat_id, uploaded_files, io_ok) ==
    IF uploaded_files = <<>> THEN [db |-> db, disk |-> files]
    ELSE LET file_path == Path(chat_id, Head(uploaded_files))
             recorded == \E i \in 1..Len(get_uploads_for_chat(db, chat_id)) :
                            get_uploads_for_chat(db, chat_id)[i] = file_path
         IN  IF ~io_ok
             THEN SaveUploads(db, files, chat_id, Tail(uploaded_files), io_ok)
             ELSE SaveUploads(IF recorded THEN db
                              ELSE add_upload(db, chat_id, file_path),
                              files \cup {file_path}, chat_id,
                              Tail(uploaded_files), io_ok)

\* lines 94-97 and 102-106: the user store is rebuilt from the files recorded
\* for the chat; `raised` when create_user_vectorstore raises
RebuildUserStore(db, files, st, chunking_strategy, sklearn) ==
    LET all_chat_files == get_uploads_for_chat(db, st.current_chat_id)
        vs == create_user_vectorstore(all_chat_files, chunking_strategy, files,
                                      sklearn)
    IN  IF all_chat_files = <<>>
        THEN [db |-> db, disk |-> files, st |-> st, raised |-> FALSE]
        ELSE IF vs.kind = "error"
        THEN [db |-> db, disk |-> files, st |-> st, raised |-> TRUE]
        ELSE [db |-> db, disk |-> files,
              st |-> [st EXCEPT !.user_vector_store = vs], raised |-> FALSE]

handle_file_uploads(db, files, st, uploaded_files, chunking_strategy, io_ok, sklearn) ==
    IF uploaded_files # <<>>
    THEN LET saved == SaveUploads(db, files, st.current_chat_id, uploaded_files,
                                  io_ok)
         IN  RebuildUserStore(saved.db, saved.disk, st, chunking_strategy, sklearn)
    ELSE IF st.user_vector_store.kind = "none"
    THEN RebuildUserStore(db, files, st, chunking_strategy, sklearn)
    ELSE [db |-> db, disk |-> files, st |-> st, raised |-> FALSE]

\* what a script run leaves: the database, the files, the session state, the
\* manager's admin store, and how the run ended: "idle" (ran to its end),
\* "rerun" (st.rerun()), "raised" (an exception ended it), "generating"
\* (inside generate_response); `built` when line 157 built a retriever and
\* `before` the persisted history of the chat when line 169 took the query
Outcome(db, files, st, admin, end, built) ==
    [db |-> db, disk |-> files, st |-> st, admin_vectorstore |-> admin,
     end |-> end, built |-> built,
     before |-> IF end = "generating"
                THEN get_chat_history(db, st.current_chat_id) ELSE <<>>]

\* _show_login_page
show_login_page(db, files, st, admin, ev) ==
    IF ev.type = "login"
    THEN LET user_id == login(db, ev.username, ev.password)
         IN  IF user_id # 0
             THEN Outcome(db, files,
                          [st EXCEPT !.logged_in = TRUE, !.user_id = user_id],
                          admin, "rerun", FALSE)
             ELSE Outcome(db, files, st, admin, "idle", FALSE)
    ELSE IF ev.type = "signup"
    THEN Outcome(signup(db, ev.username, ev.password).db, files, st, admin,
                 "idle", FALSE)
    ELSE Outcome(db, files, st, admin, "idle", FALSE)

\* lines 149-182: below the sidebar
show_chat(db, files, st, admin, ev, uploaded_files, chunking_strategy, search_strategy, io_ok, sklearn) ==
    IF st.current_chat_id = 0
    THEN Outcome(db, files, st, admin, "idle", FALSE)
    ELSE LET h == handle_file_uploads(db, files, st, uploaded_files,
                                      chunking_strategy, io_ok, sklearn)
             g == get_retriever(admin, h.st.user_vector_store, search_strategy)
             st1 == [h.st EXCEPT !.user_vector_store = g.user_vs,
                                 !.rag_chain = get_rag_chain(g.retriever)]
         IN  IF h.raised
             THEN Outcome(h.db, h.disk, h.st, admin, "raised", FALSE)
             ELSE IF ev.type = "query"
             THEN [Outcome(h.db, h.disk, st1, g.admin_vectorstore, "generating",
                           TRUE)
                   EXCEPT !.db = add_message(@, st1.current_chat_id, "human",
                                             ev.query)]
             ELSE Outcome(h.db, h.disk, st1, g.admin_vectorstore, "idle", TRUE)

\* lines 111-147: the sidebar, then the chat
\* as show_main_app, selecting a chat keeping the user store of the chat left
show_main_app_keeping_store(db, files, st, admin, ev, uploaded_files, chunking_strategy, search_strategy, io_ok, sklearn) ==
    LET st1 == IF ev.type = "new_chat"
               THEN [st EXCEPT !.current_chat_id = 0, !.chat_history = <<>>,
                               !.user_vector_store = NoneVS, !.rag_chain = NoChain]
               ELSE st
        user_chats == get_user_chats(db, st1.user_id)
        st2 == IF ev.type = "select" /\ ev.chat_id \in user_chats
               THEN [st1 EXCEPT !.current_chat_id = ev.chat_id,
                                !.chat_history = get_chat_history(db, ev.chat_id),
                                !.rag_chain = NoChain]
               ELSE st1
    IN  IF ev.type = "delete" /\ ev.chat_id \in user_chats
        THEN Outcome(delete_chat(db, ev.chat_id), files,
                     IF st2.current_chat_id = ev.chat_id
                     THEN [st2 EXCEPT !.current_chat_id = 0, !.chat_history = <<>>]
                     ELSE st2,
                     admin, "rerun", FALSE)
        ELSE IF ev.type = "logout"
        THEN Outcome(db, files, NoKeys, admin, "rerun", FALSE)
        ELSE show_chat(db, files, st2, admin, ev, uploaded_files,
                       chunking_strategy, search_strategy, io_ok, sklearn)

show_main_app(db, files, st, admin, ev, uploaded_files, chunking_strategy, search_strategy, io_ok, sklearn) ==
    LET st1 == IF ev.type = "new_chat"
               THEN [st EXCEPT !.current_chat_id = 0, !.chat_history = <<>>,
                               !.user_vector_store = NoneVS, !.rag_chain = NoChain]
               ELSE st
        user_chats == get_user_chats(db, st1.user_id)
        st2 == IF ev.type = "select" /\ ev.chat_id \in user_chats
               THEN [st1 EXCEPT !.current_chat_id = ev.chat_id,
                                !.chat_history = get_chat_history(db, ev.chat_id),
                                !.user_vector_store = NoneVS,
                                !.rag_chain = NoChain]
               ELSE st1
    IN  IF ev.type = "delete" /\ ev.chat_id \in user_chats
        THEN Outcome(delete_chat(db, ev.chat_id), files,
                     IF st2.current_chat_id = ev.chat_id
                     THEN [st2 EXCEPT !.current_chat_id = 0, !.chat_history = <<>>]
                     ELSE st2,
                     admin, "rerun", FALSE)
        ELSE IF ev.type = "logout"
        THEN Outcome(db, files, NoKeys, admin, "rerun", FALSE)
        ELSE show_chat(db, files, st2, admin, ev, uploaded_files,
                       chunking_strategy, search_strategy, io_ok, sklearn)

\* CampusChatbotApp.run, on the session state `st0`
run(db, files, st0, admin, ev, uploaded_files, chunking_strategy, search_strategy, io_ok, sklearn) ==
    LET st == initialize_session_state(st0)
        created == create_chat(db, st.user_id)
    IN  IF ~st.logged_in
        THEN show_login_page(db, files, st, admin, ev)
        ELSE IF st.current_chat_id = 0
        THEN show_main_app(created.db, files,
                           [st EXCEPT !.current_chat_id = created.id,
                                      !.chat_history = <<>>],
                           admin, ev, uploaded_files, chunking_strategy,
                           search_strategy, io_ok, sklearn)
        ELSE show_main_app(db, files, st, admin, ev, uploaded_files,
                           chunking_strategy, search_strategy, io_ok, sklearn)

\* ------------------------------------------------------------- state

VARIABLES
    admin_listing,      \* os.listdir(ADMIN_DOCS_PATH)
    persisted,          \* the index saved at admin_vectorstore_path, if any
    sklearn_installed,  \* whether `from sklearn.cluster import KMeans` works
    disk,               \* the user files that exist (os.path.exists)
    vsm,                \* the VectorStoreManager object
    user_vs,            \* the caller's user store (None, a store, or the raise)
    retriever,          \* the retriever the last get_retriever returned
    last_call,          \* the last manager operation and its arguments
    db,                 \* the SQLite database
    ss,                 \* st.session_state of every browser session
    pc,                 \* where every session's script stands
    req                 \* what every session's last script run did

vars == <<admin_listing, persisted, sklearn_installed, disk, vsm, user_vs,
          retriever, last_call, db, ss, pc, req>>

app_vars == <<db, ss, pc, req>>

Sessions == {1, 2}

NoRequest == [event |-> "none", query |-> "", answer |-> "", built |-> FALSE,
              status |-> "none", history_before |-> <<>>,
              user_index_before |-> NoneVS, file |-> ""]

InitApp ==
    /\ db = EmptyDb
    /\ ss = [s \in Sessions |-> NoKeys]
    /\ pc = [s \in Sessions |-> "idle"]
    /\ req = [s \in Sessions |-> NoRequest]

\* no manager yet; `inits` counts the admin initializations of the process
\* (_load_or_create_admin_vectorstore calls), 2 standing for two or more
Uninitialized == [state |-> "UNINITIALIZED", admin_vectorstore |-> NoneVS,
                  path |-> "none", inits |-> 0]

Again(inits) == IF inits = 0 THEN 1 ELSE 2

NoCall == [op |-> "none", search_type |-> "", chunking_strategy |-> ""]

\* ------------------------------------------------------------- the manager alone

AdminListings == SeqsUpTo({"a.pdf", "b.pdf", "blank.pdf", "bad.pdf", "notes.txt"},
                          MaxAdminFiles)

UserFileLists ==
    SeqsUpTo({Path(1, n) : n \in {"a.pdf", "blank.pdf", "bad.pdf", "gone.pdf"}},
             MaxUserFiles)

\* a process starts with the admin directory as the administrator left it,
\* and with the index an earlier process saved, if one did
InitVSM ==
    /\ admin_listing \in AdminListings
    /\ sklearn_installed \in BOOLEAN
    /\ persisted \in {NotPersisted} \cup
          {load_or_create_admin_vectorstore(NotPersisted, admin_listing,
                                            sklearn_installed).persisted}
    /\ disk = {Path(1, n) : n \in {"a.pdf", "blank.pdf", "bad.pdf"}}
    /\ vsm = Uninitialized
    /\ user_vs = NoneVS
    /\ retriever = NoRetriever
    /\ last_call = NoCall
    /\ InitApp

\* VectorStoreManager.__init__
VectorStoreManager_init ==
    LET r == load_or_create_admin_vectorstore(persisted, admin_listing,
                                              sklearn_installed)
    IN  /\ vsm.state = "UNINITIALIZED"
        /\ vsm' = [state |-> IF r.store.kind = "error" THEN "FAILED" ELSE "READY",
                   admin_vectorstore |-> r.store,
                   path |-> r.path, inits |-> Again(vsm.inits)]
        /\ persisted' = r.persisted
        /\ last_call' = [NoCall EXCEPT !.op = "init"]
        /\ UNCHANGED <<admin_listing, sklearn_installed, disk, user_vs, retriever,
                       app_vars>>

\* the process ends and another one starts: the manager and the stores it
\* holds in memory are gone, the files and the saved index stay
ProcessRestart ==
    /\ vsm.state # "UNINITIALIZED"
    /\ vsm' = Uninitialized
    /\ user_vs' = NoneVS
    /\ retriever' = NoRetriever
    /\ last_call' = NoCall
    /\ UNCHANGED <<admin_listing, persisted, sklearn_installed, disk, app_vars>>

CreateUserVectorstore ==
    \E file_paths \in UserFileLists, chunking_strategy \in ChunkingStrategies :
        /\ vsm.state = "READY"
        /\ user_vs' = create_user_vectorstore(file_paths, chunking_strategy,
                                              disk, sklearn_installed)
        /\ last_call' = [NoCall EXCEPT !.op = "create_user_vectorstore",
                                       !.chunking_strategy = chunking_strategy]
        /\ UNCHANGED <<admin_listing, persisted, sklearn_installed, disk, vsm,
                       retriever, app_vars>>

GetRetriever ==
    \E search_type \in SearchStrategies :
        LET r == get_retriever(vsm.admin_vectorstore, user_vs, search_type)
        IN  /\ vsm.state = "READY"
            /\ user_vs.kind # "error"
            /\ retriever' = r.retriever
            /\ vsm' = [vsm EXCEPT !.admin_vectorstore = r.admin_vectorstore]
            /\ user_vs' = r.user_vs
            /\ last_call' = [NoCall EXCEPT !.op = "get_retriever",
                                           !.search_type = search_type]
            /\ UNCHANGED <<admin_listing, persisted, sklearn_installed, disk, app_vars>>

NextVSM ==
    \/ VectorStoreManager_init
    \/ ProcessRestart
    \/ CreateUserVectorstore
    \/ GetRetriever

SpecVSM == InitVSM /\ [][NextVSM]_vars

\* ------------------------------------------------------------- the application

\* most chats ever created, most message rows
MaxChats == 2
MaxMessages == 3

Queries == {"q"}
Answers == {"answer"}

\* what the user may enter in a script run: the names signed up and logged
\* in with, the lists of files left in the uploader, the two settings, and
\* whether writing an uploaded file succeeds
Inputs(usernames, upload_names, chunking, search, io) ==
    [usernames |-> usernames,
     upload_lists |-> SeqsUpTo(upload_names, MaxUserFiles),
     chunking |-> chunking, search |-> search, io |-> io]

\* the events the page drawn by the last run offers
PageEvents(s, usernames) ==
    LET st == initialize_session_state(ss[s])
    IN  IF pc[s] = "rerun" THEN {NoEvent}
        ELSE IF ~st.logged_in
        THEN {NoEvent}
             \cup {Event("login", 0, u, p, "") : u \in usernames, p \in {"pw", "wrong"}}
             \cup {Event("signup", 0, u, "pw", "") : u \in usernames \cup {""}}
        ELSE {NoEvent, Event("new_chat", 0, "", "", ""), Event("logout", 0, "", "", "")}
             \cup {Event(t, c, "", "", "") : t \in {"select", "delete"},
                                             c \in get_user_chats(db, st.user_id)}
             \cup (IF pc[s] = "idle" /\ st.current_chat_id # 0
                   THEN {Event("query", 0, "", "", q) : q \in Queries} ELSE {})

\* the file uploader (line 69) is drawn only on the page of a chat, and keeps
\* its files over st.rerun(); a session that holds a chain has drawn it
UploaderDrawn(s) ==
    /\ ss[s].keys
    /\ ss[s].logged_in
    /\ \/ ss[s].current_chat_id # 0
       \/ pc[s] = "rerun" /\ ss[s].rag_chain # NoChain

\* one run of the script for session s: CampusChatbotApp() and app.run()
ScriptRun(s, in) ==
    \E uploaded_files \in in.upload_lists, io_ok \in in.io,
       chunking_strategy \in in.chunking, search_strategy \in in.search :
      /\ pc[s] \in {"idle", "raised", "rerun"}
      /\ ~UploaderDrawn(s) => uploaded_files = <<>>
      /\ uploaded_files = <<>> => io_ok
      /\ \E ev \in PageEvents(s, in.usernames) :
         \E a \in {load_or_create_admin_vectorstore(persisted, admin_listing,
                                                    sklearn_installed)} :
         \E out \in {run(db, disk, ss[s], a.store, ev, uploaded_files,
                         chunking_strategy, search_strategy, io_ok,
                         sklearn_installed)} :
            /\ persisted' = a.persisted
            /\ UNCHANGED <<admin_listing, sklearn_installed, user_vs, retriever,
                           last_call>>
            /\ IF a.store.kind = "error"
               THEN /\ vsm' = [state |-> "FAILED", admin_vectorstore |-> a.store,
                               path |-> a.path, inits |-> Again(vsm.inits)]
                    /\ pc' = [pc EXCEPT ![s] = "raised"]
                    /\ req' = [req EXCEPT ![s] = NoRequest]
                    /\ UNCHANGED <<db, ss, disk>>
               ELSE /\ out.db.last_chat_id <= MaxChats
                    /\ Len(out.db.messages) + (IF out.end = "generating" THEN 1 ELSE 0)
                          <= MaxMessages
                    /\ vsm' = [state |-> "READY",
                               admin_vectorstore |-> out.admin_vectorstore,
                               path |-> a.path, inits |-> Again(vsm.inits)]
                    /\ db' = out.db
                    /\ disk' = out.disk
                    /\ ss' = [ss EXCEPT ![s] = out.st]
                    /\ pc' = [pc EXCEPT ![s] = out.end]
                    /\ req' = [req EXCEPT ![s] =
                          [event |-> ev.type,
                           query |-> ev.query,
                           answer |-> "",
                           built |-> out.built,
                           status |-> IF out.end = "generating" THEN "pending"
                                      ELSE "none",
                           history_before |-> out.before,
                           user_index_before |->
                               IF out.end = "generating"
                               THEN out.st.user_vector_store ELSE NoneVS,
                           file |-> ""]]

\* generate_response returns: lines 180-182
GenerateReturns(s) ==
    \E answer \in Answers :
        LET chat_id == ss[s].current_chat_id
            db1 == add_message(db, chat_id, "ai", answer)
        IN  /\ pc[s] = "generating"
            /\ db' = db1
            /\ ss' = [ss EXCEPT ![s].chat_history = get_chat_history(db1, chat_id)]
            /\ pc' = [pc EXCEPT ![s] = "rerun"]
            /\ req' = [req EXCEPT ![s].status = "answered", ![s].answer = answer]
            /\ UNCHANGED <<admin_listing, persisted, sklearn_installed, disk, vsm,
                           user_vs, retriever, last_call>>

\* generate_response raises: the exception ends the script run at line 173
GenerateRaises(s) ==
    /\ pc[s] = "generating"
    /\ pc' = [pc EXCEPT ![s] = "idle"]
    /\ req' = [req EXCEPT ![s].status = "failed"]
    /\ UNCHANGED <<admin_listing, persisted, sklearn_installed, disk, vsm,
                   user_vs, retriever, last_call, db, ss>>

Init ==
    /\ admin_listing \in {<<>>, <<"a.pdf">>, <<"blank.pdf">>}
    /\ sklearn_installed = TRUE
    /\ persisted = NotPersisted
    /\ disk = {}
    /\ vsm = Uninitialized
    /\ user_vs = NoneVS
    /\ retriever = NoRetriever
    /\ last_call = NoCall
    /\ InitApp

\* one user in one browser session, the two settings left as the page shows
\* them first
OneUser ==
    Inputs({"alice"}, {"a.pdf"}, {DEFAULT_CHUNKING_STRATEGY},
           {DEFAULT_SEARCH_STRATEGY}, BOOLEAN)

Next ==
    \/ ScriptRun(1, OneUser)
    \/ GenerateReturns(1)
    \/ GenerateRaises(1)

Spec == Init /\ [][Next]_vars

\* ------------------------------------------------------------- properties of the application

\* C1: if generate_response fails while a query is answered for chat c, the
\* persisted history of c and the session's user index are what they were
\* before the request; the human query is not left in the history.
C1_FailedAnswerLeavesNoTrace ==
    \A s \in Sessions :
        req[s].status = "failed" =>
            /\ get_chat_history(db, ss[s].current_chat_id) = req[s].history_before
            /\ ss[s].user_vector_store = req[s].user_index_before

\* C2: whenever a script run has built a retriever, the session's user index
\* is None if no upload is recorded for the current chat, and otherwise the
\* index built from exactly the files recorded for the current chat.
C2_UserIndexIsOfCurrentChat ==
    \A s \in Sessions :
        req[s].built =>
            LET file_paths == get_uploads_for_chat(db, ss[s].current_chat_id)
            IN  IF file_paths = <<>>
                THEN ss[s].user_vector_store = NoneVS
                ELSE \E chunking_strategy \in ChunkingStrategies :
                        ss[s].user_vector_store =
                            create_user_vectorstore(file_paths, chunking_strategy,
                                                    disk, sklearn_installed)

\* ------------------------------------------------------------- properties of the manager

DocSet(docs) == {docs[i] : i \in 1..Len(docs)}

PlaceholderDocument == Document(PlaceholderText, NoSource)

\* the chunks of the corpus that come from a document
RealChunks(docs) == {i \in 1..Len(docs) : docs[i] # PlaceholderDocument}

RECURSIVE HasLexical(_)
HasLexical(r) ==
    \/ r.kind = "bm25"
    \/ /\ r.kind = "ensemble"
       /\ \E i \in 1..Len(r.retrievers) : HasLexical(r.retrievers[i])

RECURSIVE SimilarityOnly(_)
SimilarityOnly(r) ==
    \/ r.kind = "vector" /\ r.search_type = "similarity"
    \/ /\ r.kind = "ensemble"
       /\ \A i \in 1..Len(r.retrievers) : SimilarityOnly(r.retrievers[i])

GotRetriever(search_types) ==
    /\ last_call.op = "get_retriever"
    /\ last_call.search_type \in search_types

\* C3: for search mode similarity or mmr and no user index, the retriever
\* returned is a retriever over the admin vector index alone, searched in the
\* requested mode, with no lexical index and no fusion.
C3_AdminPassThrough ==
    (GotRetriever({"similarity", "mmr"}) /\ user_vs.kind = "none") =>
        /\ retriever.kind = "vector"
        /\ retriever.ref = "admin"
        /\ retriever.docs = vsm.admin_vectorstore.docs
        /\ retriever.search_type = last_call.search_type

C3_Witness ==
    /\ GotRetriever({"mmr"})
    /\ user_vs.kind = "none"
    /\ retriever.kind = "vector"
    /\ retriever.search_type = "mmr"

\* C4: for search mode similarity or mmr with a user index, the retriever
\* returned is a fusion of exactly two sources, the admin vector index and the
\* user vector index, each its own retriever, with weights 1/2 and 1/2, and no
\* lexical index.
C4_AdminUserFusion ==
    (GotRetriever({"similarity", "mmr"}) /\ user_vs.kind = "faiss") =>
        /\ retriever.kind = "ensemble"
        /\ Len(retriever.retrievers) = 2
        /\ retriever.retrievers[1].kind = "vector"
        /\ retriever.retrievers[1].ref = "admin"
        /\ retriever.retrievers[1].docs = vsm.admin_vectorstore.docs
        /\ retriever.retrievers[2].kind = "vector"
        /\ retriever.retrievers[2].ref = "user"
        /\ retriever.retrievers[2].docs = user_vs.docs
        /\ retriever.weights = <<Half, Half>>
        /\ ~HasLexical(retriever)

C4_Witness ==
    /\ GotRetriever({"similarity"})
    /\ user_vs.kind = "faiss"
    /\ retriever.kind = "ensemble"
    /\ Len(vsm.admin_vectorstore.docs) >= 2

\* C5: for search mode hybrid, no user index and an admin corpus of at least
\* 2 chunks, the retriever returned fuses, with weights 1/2 and 1/2, the admin
\* vector index searched by similarity and a lexical index built over exactly
\* the chunks of the admin index.
C5_HybridAdmin ==
    (/\ GotRetriever({"hybrid"})
     /\ user_vs.kind = "none"
     /\ Len(vsm.admin_vectorstore.docs) >= 2) =>
        /\ retriever.kind = "ensemble"
        /\ Len(retriever.retrievers) = 2
        /\ retriever.retrievers[1].kind = "vector"
        /\ retriever.retrievers[1].ref = "admin"
        /\ retriever.retrievers[1].search_type = "similarity"
        /\ retriever.retrievers[2].kind = "bm25"
        /\ DocSet(retriever.retrievers[2].docs) = DocSet(vsm.admin_vectorstore.docs)
        /\ Len(retriever.retrievers[2].docs) = Len(vsm.admin_vectorstore.docs)
        /\ retriever.weights = <<Half, Half>>

C5_Witness ==
    /\ GotRetriever({"hybrid"})
    /\ user_vs.kind = "none"
    /\ Len(vsm.admin_vectorstore.docs) >= 2
    /\ HasLexical(retriever)

\* C6: for search mode hybrid with a user index, the lexical index is built
\* over exactly the union of the chunks of the admin index and of the user
\* index, and is fused with weights 1/2 and 1/2 with a vector retriever whose
\* store holds every admin chunk and every user chunk.
C6_HybridUnion ==
    (GotRetriever({"hybrid"}) /\ user_vs.kind = "faiss") =>
        /\ retriever.kind = "ensemble"
        /\ Len(retriever.retrievers) = 2
        /\ retriever.retrievers[1].kind = "vector"
        /\ DocSet(vsm.admin_vectorstore.docs) \cup DocSet(user_vs.docs)
              \subseteq DocSet(retriever.retrievers[1].docs)
        /\ retriever.retrievers[2].kind = "bm25"
        /\ DocSet(retriever.retrievers[2].docs) =
              DocSet(vsm.admin_vectorstore.docs) \cup DocSet(user_vs.docs)
        /\ retriever.weights = <<Half, Half>>

C6_Witness ==
    /\ GotRetriever({"hybrid"})
    /\ user_vs.kind = "faiss"
    /\ RealChunks(vsm.admin_vectorstore.docs) # {}
    /\ HasLexical(retriever)

\* C7: in hybrid mode, whenever the corpus (admin chunks plus user chunks, the
\* placeholder entry not counted) has at most 1 real chunk, no lexical index
\* is constructed and the retriever returned is similarity-only.
C7_NoLexicalOnDegenerateCorpus ==
    (/\ GotRetriever({"hybrid"})
     /\ user_vs.kind \in {"none", "faiss"}
     /\ Cardinality(RealChunks(AllDocs(vsm.admin_vectorstore, user_vs))) <= 1) =>
        /\ ~HasLexical(retriever)
        /\ SimilarityOnly(retriever)

\* C8: every vector index that exists holds at least 1 entry, and building an
\* index never fails because the set of real chunks is empty.
C8_IndexNeverEmptyNorFailing ==
    /\ vsm.state = "READY" => Len(vsm.admin_vectorstore.docs) >= 1
    /\ user_vs.kind = "faiss" => Len(user_vs.docs) >= 1
    /\ vsm.state # "FAILED"
    /\ user_vs.kind # "error"

\* C9: admin initialization reaches READY by loading the persisted index, or
\* else by building the index from the admin documents and persisting it, so
\* that after any initialization a persisted index exists.
C9_InitLeavesPersistedIndex ==
    vsm.state = "READY" =>
        /\ vsm.path \in {"load", "build"}
        /\ persisted.kind = "saved"
        /\ DocSet(persisted.docs) = DocSet(vsm.admin_vectorstore.docs)

\* C10: once the admin index is READY, get_retriever and
\* create_user_vectorstore leave the admin index as it was, and get_retriever
\* leaves the user index as it was.
C10_AdminReadOnly ==
    [][(last_call'.op \in {"get_retriever", "create_user_vectorstore"}) =>
          /\ vsm'.admin_vectorstore = vsm.admin_vectorstore
          /\ vsm'.state = vsm.state
          /\ last_call'.op = "get_retriever" => user_vs' = user_vs]_vars

C10_Witness ==
    /\ GotRetriever({"hybrid"})
    /\ user_vs.kind = "faiss"
    /\ retriever.kind = "ensemble"
    /\ retriever.retrievers[1].ref = "combined"
    /\ vsm.state = "READY"

\* ------------------------------------------------------------- the process and its sessions

\* C11: in one process the admin index is initialized (loaded or built) once,
\* whatever the number of script runs.
C11_OneAdminInitPerProcess == vsm.inits <= 1

\* the user store create_user_vectorstore gives for the uploads recorded for
\* the session's current chat, under some chunking strategy
BuiltFromCurrentChat(s) ==
    \E chunking_strategy \in ChunkingStrategies :
        ss[s].user_vector_store =
            create_user_vectorstore(get_uploads_for_chat(db, ss[s].current_chat_id),
                                    chunking_strategy, disk, sklearn_installed)

\* C12: after the script run that handled New Chat, the selection of a chat or
\* Logout, the session holds no user index, unless that run rebuilt one from
\* the uploads of the newly current chat.
C12_UserIndexDiscarded ==
    \A s \in Sessions :
        req[s].event \in {"new_chat", "select", "logout"} =>
            \/ ss[s].user_vector_store = NoneVS
            \/ req[s].built /\ BuiltFromCurrentChat(s)

\* a chat is selected and its user index is rebuilt from its recorded upload
C12_Witness ==
    /\ req[1].event = "select"
    /\ req[1].built
    /\ ss[1].user_vector_store.kind = "faiss"
    /\ BuiltFromCurrentChat(1)

Turn(type, content) == [type |-> type, content |-> content]

\* C13: generate_response leaves the persisted history alone: while it runs
\* the history of the chat is the history before the request followed by the
\* human turn, and after it returned the history is that followed by the
\* assistant turn carrying the answer, nothing else.
C13_AnswerAppendsTwoTurns ==
    \A s \in Sessions :
        LET history == get_chat_history(db, ss[s].current_chat_id)
            asked == Append(req[s].history_before, Turn("human", req[s].query))
        IN  /\ req[s].status = "pending" => history = asked
            /\ req[s].status = "answered" =>
                  /\ history = Append(asked, Turn("ai", req[s].answer))
                  /\ ss[s].chat_history = history

\* a query is answered in a chat that had a turn already
C13_Witness ==
    /\ req[1].status = "answered"
    /\ req[1].history_before # <<>>
    /\ Len(get_chat_history(db, ss[1].current_chat_id)) =
          Len(req[1].history_before) + 2

IsPrefix(p, q) == Len(p) <= Len(q) /\ SubSeq(q, 1, Len(p)) = p

\* the ids of the rows of the chats table
ChatIds(d) == {d.chats[i].id : i \in 1..Len(d.chats)}

\* C14: the persisted history of a chat is append-only: every step leaves the
\* history of every chat that is not deleted a prefix of its new history.
C14_HistoryAppendOnly ==
    [][\A c \in ChatIds(db') :
          IsPrefix(get_chat_history(db, c), get_chat_history(db', c))]_vars

\* a chat was deleted by the last run while another chat keeps its turns
C14_Witness ==
    /\ req[1].event = "delete"
    /\ db.last_chat_id > Len(db.chats)
    /\ \E c \in ChatIds(db) : get_chat_history(db, c) # <<>>

\* ------------------------------------------------------------- the manager's methods, one call each

CorpusFiles == {"a.pdf", "blank.pdf", "bad.pdf", "gone.pdf", "long.pdf",
                "huge.pdf", "notes.txt"}

CorpusFileLists == SeqsUpTo({Path(1, n) : n \in CorpusFiles}, MaxUserFiles)

\* a call of a method of the manager: its arguments, what it returned
\* (documents, chunks) and what it printed
Call(op, file_paths, chunking_strategy, search_type, documents, chunks, printed) ==
    [op |-> op, file_paths |-> file_paths,
     chunking_strategy |-> chunking_strategy, search_type |-> search_type,
     documents |-> documents, chunks |-> chunks, printed |-> printed]

\* a manager built on an empty admin directory, the user files on disk
\* (gone.pdf is recorded but was removed), and the arguments of the call to come
InitCorpus ==
    /\ admin_listing = <<>>
    /\ sklearn_installed \in BOOLEAN
    /\ persisted = NotPersisted
    /\ disk = {Path(1, n) : n \in CorpusFiles \ {"gone.pdf"}}
    /\ vsm = [state |-> "READY",
              admin_vectorstore |->
                  load_or_create_admin_vectorstore(NotPersisted, <<>>, TRUE).store,
              path |-> "build", inits |-> 1]
    /\ user_vs = NoneVS
    /\ retriever = NoRetriever
    /\ \E file_paths \in CorpusFileLists, chunking_strategy \in ChunkingStrategies :
          last_call = Call("none", file_paths, chunking_strategy, "", <<>>, <<>>, <<>>)
    /\ InitApp

\* _load_documents_from_path on a directory that lists the files
LoadDocumentsFromPath ==
    LET listing == [i \in 1..Len(last_call.file_paths) |->
                       last_call.file_paths[i].name]
    IN  /\ last_call.op = "none"
        /\ \A i \in 1..Len(last_call.file_paths) : last_call.file_paths[i] \in disk
        /\ last_call' = [last_call EXCEPT
                            !.op = "load_documents_from_path",
                            !.documents = load_documents_from_path(1, listing)]
        /\ UNCHANGED <<admin_listing, persisted, sklearn_installed, disk, vsm,
                       user_vs, retriever, app_vars>>

\* get_chunks on the documents of the files; its callers pass it at least one
\* document (lines 101 and 126)
GetChunks ==
    LET documents == LoadUserDocuments(last_call.file_paths, disk)
        strategy == last_call.chunking_strategy
    IN  /\ last_call.op = "none"
        /\ documents # <<>>
        /\ last_call' = [last_call EXCEPT
                            !.op = "get_chunks",
                            !.documents = documents,
                            !.chunks = get_chunks(documents, strategy,
                                                  sklearn_installed),
                            !.printed = get_chunks_prints(documents, strategy,
                                                          sklearn_installed)]
        /\ UNCHANGED <<admin_listing, persisted, sklearn_installed, disk, vsm,
                       user_vs, retriever, app_vars>>

\* create_user_vectorstore on the files
CreateUserVectorstoreCall ==
    /\ last_call.op = "none"
    /\ user_vs' = create_user_vectorstore(last_call.file_paths,
                                          last_call.chunking_strategy, disk,
                                          sklearn_installed)
    /\ last_call' = [last_call EXCEPT !.op = "create_user_vectorstore"]
    /\ UNCHANGED <<admin_listing, persisted, sklearn_installed, disk, vsm,
                   retriever, app_vars>>

\* get_retriever with the user store the call before returned
GetRetrieverCall ==
    \E search_type \in SearchStrategies :
        LET r == get_retriever(vsm.admin_vectorstore, user_vs, search_type)
        IN  /\ last_call.op = "create_user_vectorstore"
            /\ user_vs.kind # "error"
            /\ retriever' = r.retriever
            /\ vsm' = [vsm EXCEPT !.admin_vectorstore = r.admin_vectorstore]
            /\ user_vs' = r.user_vs
            /\ last_call' = [last_call EXCEPT
                                !.op = "get_retriever",
                                !.search_type = search_type,
                                !.printed = get_retriever_prints(
                                    vsm.admin_vectorstore, user_vs, search_type)]
            /\ UNCHANGED <<admin_listing, persisted, sklearn_installed, disk,
                           app_vars>>

NextCorpus ==
    \/ LoadDocumentsFromPath
    \/ GetChunks
    \/ CreateUserVectorstoreCall
    \/ GetRetrieverCall

SpecCorpus == InitCorpus /\ [][NextCorpus]_vars

\* ------------------------------------------------------------- properties of the manager's methods

\* C15: create_user_vectorstore gives indices with the same chunk set for the
\* same set of file paths and the same chunking strategy, the files unchanged.
C15_SameFilesSameChunks ==
    last_call.op = "create_user_vectorstore" =>
        \A file_paths \in CorpusFileLists :
            Range(file_paths) = Range(last_call.file_paths) =>
                LET again == create_user_vectorstore(file_paths,
                                 last_call.chunking_strategy, disk,
                                 sklearn_installed)
                IN  /\ again.kind = user_vs.kind
                    /\ DocSet(again.docs) = DocSet(user_vs.docs)

GotChunks(strategy) ==
    /\ last_call.op = "get_chunks"
    /\ last_call.chunking_strategy = strategy

\* whether _semantic_chunking clusters the sentences of the documents
Clusters(documents) ==
    /\ sklearn_installed
    /\ Len(Sentences(documents)) >= SEMANTIC_N_CLUSTERS

\* C16: semantic chunking of documents with fewer sentences than
\* SEMANTIC_N_CLUSTERS (none included), or without the clustering library,
\* returns exactly what recursive chunking returns on the same documents.
C16_SemanticFallsBackToRecursive ==
    (GotChunks("semantic") /\ ~Clusters(last_call.documents)) =>
        last_call.chunks = recursive_chunking(last_call.documents)

\* the library is there and the documents have some sentences, but too few
C16_Witness ==
    /\ GotChunks("semantic")
    /\ sklearn_installed
    /\ Len(Sentences(last_call.documents)) \in 1..(SEMANTIC_N_CLUSTERS - 1)
    /\ last_call.chunks # <<>>
    /\ last_call.chunks = recursive_chunking(last_call.documents)

\* the sentences at the positions P, in the order of the text
AtPositions(sentences, P) ==
    LET positions == SelectSeq([i \in 1..Len(sentences) |-> i], LAMBDA i : i \in P)
    IN  [n \in 1..Len(positions) |-> sentences[positions[n]]]

\* C17: when semantic chunking clusters, there is exactly one chunk per
\* non-empty cluster, and the chunk of a cluster is made of exactly the
\* sentences labelled with it, in the order they have in the text; so every
\* sentence is in exactly one chunk.
C17_OneChunkPerCluster ==
    (GotChunks("semantic") /\ Clusters(last_call.documents)) =>
        LET sentences == Sentences(last_call.documents)
            chunks == last_call.chunks
            labels == {KMeansLabel(sentences[i]) : i \in 1..Len(sentences)}
            Members(c) == {i \in 1..Len(sentences) : KMeansLabel(sentences[i]) = c}
        IN  /\ Len(chunks) = Cardinality(labels)
            /\ \A c \in labels :
                  Cardinality({k \in 1..Len(chunks) :
                      chunks[k].page_content = AtPositions(sentences, Members(c))}) = 1
            /\ \A k \in 1..Len(chunks) :
                  \E c \in labels :
                      chunks[k].page_content = AtPositions(sentences, Members(c))

\* sentences of two files clustered, some cluster holding several sentences
\* and some cluster none
C17_Witness ==
    /\ GotChunks("semantic")
    /\ Clusters(last_call.documents)
    /\ Len(last_call.file_paths) = 2
    /\ Len(last_call.chunks) \in 2..(SEMANTIC_N_CLUSTERS - 1)
    /\ \E k \in 1..Len(last_call.chunks) : Len(last_call.chunks[k].page_content) = 3

\* C18: every chunk get_chunks returns, under each strategy, carries the
\* source of a document it was given.
C18_ChunksCarrySource ==
    last_call.op = "get_chunks" =>
        \A k \in 1..Len(last_call.chunks) :
            \E i \in 1..Len(last_call.documents) :
                last_call.chunks[k].source = last_call.documents[i].source

\* the files of a list that can be read: they exist, are named *.pdf and load
ReadablePaths(file_paths) ==
    {file_paths[i] : i \in {j \in 1..Len(file_paths) :
        /\ file_paths[j] \in disk
        /\ EndsWithPdf(file_paths[j].name)
        /\ PdfReadable(file_paths[j].name)}}

\* the sentences on the pages of a file
SentencesOf(path) ==
    UNION {Range(PdfPages(path.name)[i]) : i \in 1..Len(PdfPages(path.name))}

\* C19: no bad input aborts a batch: _load_documents_from_path returns the
\* pages of every readable file of the directory, and create_user_vectorstore
\* raises nothing, returns None for an empty list, and otherwise indexes the
\* text of every readable file of the list.
C19_BadFilesSkipped ==
    /\ last_call.op = "load_documents_from_path" =>
          /\ \A p \in ReadablePaths(last_call.file_paths) :
                \A i \in 1..Len(PdfPages(p.name)) :
                    Document(PdfPages(p.name)[i], p) \in DocSet(last_call.documents)
          /\ \A d \in DocSet(last_call.documents) :
                d.source \in ReadablePaths(last_call.file_paths)
    /\ last_call.op = "create_user_vectorstore" =>
          /\ user_vs.kind # "error"
          /\ last_call.file_paths = <<>> => user_vs = NoneVS
          /\ \A p \in ReadablePaths(last_call.file_paths) :
                \A x \in SentencesOf(p) :
                    \E k \in 1..Len(user_vs.docs) :
                        x \in Range(user_vs.docs[k].page_content)

\* the lines every run of a chunker prints, fallback or not
Banners == {"Performing semantic chunking...", "Performing recursive chunking...",
            "Performing fixed-size chunking..."}

\* something printed says more than a chunker's banner
DiagnosticPrinted == Range(last_call.printed) \ Banners # {}

\* C20: whenever semantic chunking falls back to recursive for want of
\* sentences, or hybrid retrieval falls back to similarity because the corpus
\* has fewer than 2 documents, a diagnostic is printed.
C20_FallbackIsLogged ==
    /\ (/\ GotChunks("semantic")
        /\ sklearn_installed
        /\ Len(Sentences(last_call.documents)) < SEMANTIC_N_CLUSTERS) =>
            DiagnosticPrinted
    /\ (/\ last_call.op = "get_retriever"
        /\ last_call.search_type = "hybrid"
        /\ Len(AllDocs(vsm.admin_vectorstore, user_vs)) < 2) =>
            DiagnosticPrinted

\* ------------------------------------------------------------- the search mode of the retriever

\* every vector store the retriever queries is searched by
\* max-marginal-relevance
RECURSIVE MmrEverywhere(_)
MmrEverywhere(r) ==
    \/ r.kind = "vector" /\ r.search_type = "mmr"
    \/ r.kind = "bm25"
    \/ /\ r.kind = "ensemble"
       /\ \A i \in 1..Len(r.retrievers) : MmrEverywhere(r.retrievers[i])

\* C21: when get_retriever is asked for mmr, every vector index the returned
\* retriever queries is searched with max-marginal-relevance, without a user
\* index and with one.
C21_MmrSearchesEveryIndex ==
    (GotRetriever({"mmr"}) /\ user_vs.kind \in {"none", "faiss"}) =>
        MmrEverywhere(retriever)

\* ------------------------------------------------------------- properties of the database

\* the row of chat c in the chats table
ChatRow(d, c) == SelectSeq(d.chats, LAMBDA row : row.id = c)

\* the ids of the chats that were created and are deleted
DeletedChats(d) == (1..d.last_chat_id) \ ChatIds(d)

\* C22: a step that deletes chat c leaves no message and no upload record of
\* c, and leaves every other chat there was, its messages and its upload
\* records as they were.
C22_DeleteChatFrame ==
    [][\A c \in ChatIds(db) \ ChatIds(db') :
          /\ SelectRows(db'.messages, c) = <<>>
          /\ SelectRows(db'.uploads, c) = <<>>
          /\ \A other \in ChatIds(db) \ {c} :
                /\ ChatRow(db', other) = ChatRow(db, other)
                /\ ChatRow(db', other) # <<>>
                /\ SelectRows(db'.messages, other) = SelectRows(db.messages, other)
                /\ SelectRows(db'.uploads, other) = SelectRows(db.uploads, other)]_vars

\* the last run deleted a chat a file had been uploaded to, and another chat
\* still has its turns and its upload record
C22_Witness ==
    /\ req[1].event = "delete"
    /\ \E c \in DeletedChats(db) : Path(c, "a.pdf") \in disk
    /\ \E other \in ChatIds(db) :
          /\ SelectRows(db.messages, other) # <<>>
          /\ SelectRows(db.uploads, other) # <<>>

\* ------------------------------------------------------------- two users, one after the other

\* two users share a browser: each signs up, logs in and out in the same
\* session; nothing is uploaded and the admin directory is empty
TwoUsers ==
    Inputs({"alice", "bob"}, {}, {DEFAULT_CHUNKING_STRATEGY},
           {DEFAULT_SEARCH_STRATEGY}, {TRUE})

InitUsers ==
    /\ Init
    /\ admin_listing = <<>>

NextUsers ==
    \/ ScriptRun(1, TwoUsers)
    \/ GenerateReturns(1)
    \/ GenerateRaises(1)

SpecUsers == InitUsers /\ [][NextUsers]_vars

\* ------------------------------------------------------------- properties of the sessions

\* chat c is in the chats table, created for user_id
OwnedBy(d, c, user_id) ==
    \E i \in 1..Len(d.chats) : d.chats[i].id = c /\ d.chats[i].user_id = user_id

\* the session is logged in as user_id
LoggedInAs(st, user_id) == st.keys /\ st.logged_in /\ st.user_id = user_id

\* C24: the current chat of a logged-in session is a chat of its user: after
\* every step it is a chat created for the user, or a chat that is gone and
\* was the session's current chat under the same user before the step; and a
\* chat whose messages change, or that is deleted, is a chat of a user that is
\* logged in.
C24_CurrentChatIsOwn ==
    [][/\ \A s \in Sessions :
            (ss'[s].keys /\ ss'[s].logged_in /\ ss'[s].current_chat_id # 0) =>
                \/ OwnedBy(db', ss'[s].current_chat_id, ss'[s].user_id)
                \/ /\ ss'[s].current_chat_id \notin ChatIds(db')
                   /\ LoggedInAs(ss[s], ss'[s].user_id)
                   /\ ss[s].current_chat_id = ss'[s].current_chat_id
       /\ \A c \in ChatIds(db) :
            (c \notin ChatIds(db')
             \/ SelectRows(db'.messages, c) # SelectRows(db.messages, c)
             \/ SelectRows(db'.uploads, c) # SelectRows(db.uploads, c)) =>
                \E s \in Sessions, u \in 1..Len(db.users) :
                    LoggedInAs(ss[s], u) /\ OwnedBy(db, c, u)]_vars

\* the second user selected a chat of their own while the first user's chat
\* stands in the table
C24_Witness ==
    /\ req[1].event = "select"
    /\ LoggedInAs(ss[1], 2)
    /\ OwnedBy(db, ss[1].current_chat_id, 2)
    /\ \E c \in ChatIds(db) : OwnedBy(db, c, 1)

\* the script of session s has ended and the page waits for the user
Waiting(s) == pc[s] \in {"idle", "raised"}

\* C26: whenever a logged-in session with a current chat waits for the next
\* input, its chat_history is the persisted history of the chat; and the
\* history handed to generate_response is the persisted history from before
\* the query, without the query.
C26_SessionHistoryIsPersisted ==
    \A s \in Sessions :
        /\ (Waiting(s) /\ ss[s].keys /\ ss[s].logged_in /\ ss[s].current_chat_id # 0) =>
              ss[s].chat_history = get_chat_history(db, ss[s].current_chat_id)
        /\ req[s].status = "pending" =>
              ss[s].chat_history = req[s].history_before

\* ------------------------------------------------------------- one user, two browser tabs

\* the two sessions run their scripts in threads of one process, on one
\* database; every database call is a transaction of its own, so the thread of
\* one session can be overtaken between two calls. Both tabs are logged in
\* already and nobody logs in again; nothing is uploaded
Tabs ==
    Inputs({}, {}, {DEFAULT_CHUNKING_STRATEGY}, {DEFAULT_SEARCH_STRATEGY}, {TRUE})

\* the manager of a process that found the admin directory empty, built by
\* the second script run or a later one
ManagerOfEmptyDir ==
    [state |-> "READY",
     admin_vectorstore |->
         load_or_create_admin_vectorstore(NotPersisted, <<>>, TRUE).store,
     path |-> "build", inits |-> 2]

\* alice has signed up and has logged in in both tabs (line 50: the rerun
\* after the login is still to come in each)
InitTabs ==
    /\ admin_listing = <<>>
    /\ sklearn_installed = TRUE
    /\ persisted = NotPersisted
    /\ disk = {}
    /\ vsm = ManagerOfEmptyDir
    /\ user_vs = NoneVS
    /\ retriever = NoRetriever
    /\ last_call = NoCall
    /\ db = signup(EmptyDb, "alice", "pw").db
    /\ ss = [s \in Sessions |->
                [SessionDefaults EXCEPT !.logged_in = TRUE,
                                        !.user_id = login(db, "alice", "pw")]]
    /\ pc = [s \in Sessions |-> "rerun"]
    /\ req = [s \in Sessions |-> [NoRequest EXCEPT !.event = "login"]]

NextTabs ==
    \/ \E s \in Sessions : ScriptRun(s, Tabs)
    \/ \E s \in Sessions : GenerateReturns(s)
    \/ \E s \in Sessions : GenerateRaises(s)

SpecTabs == InitTabs /\ [][NextTabs]_vars

\* ------------------------------------------------------------- two tabs uploading to one chat

\* the files left in the uploader of a tab
TabUploads == {"a.pdf", "b.pdf"}

\* a script run with one file in the uploader and no button pressed, as far
\* as line 86: the manager is built, the file is written to the directory of
\* the chat (lines 76-84), and the registry is asked whether its path is
\* recorded. The thread can be overtaken before the insert of line 87
UploadBegin(s) ==
    \E name \in TabUploads :
    \E a \in {load_or_create_admin_vectorstore(persisted, admin_listing,
                                               sklearn_installed)} :
        LET chat_id == ss[s].current_chat_id
            file_path == Path(chat_id, name)
            recorded == file_path \in Range(get_uploads_for_chat(db, chat_id))
        IN  /\ pc[s] \in {"idle", "raised", "rerun"}
            /\ ss[s].keys /\ ss[s].logged_in /\ chat_id # 0
            /\ a.store.kind # "error"
            /\ persisted' = a.persisted
            /\ vsm' = [state |-> "READY", admin_vectorstore |-> a.store,
                       path |-> a.path, inits |-> Again(vsm.inits)]
            /\ disk' = disk \cup {file_path}
            /\ pc' = [pc EXCEPT ![s] = IF recorded THEN "line88" ELSE "line87"]
            /\ req' = [req EXCEPT ![s] =
                          [NoRequest EXCEPT !.event = "upload", !.file = name]]
            /\ UNCHANGED <<admin_listing, sklearn_installed, user_vs, retriever,
                           last_call, db, ss>>

\* the rest of that run: the insert of line 87 if the path was not recorded,
\* the user store rebuilt from the registry (lines 93-97), the retriever and
\* the chain (lines 157-158); the admin store is the one the run loaded
UploadEnd(s) ==
    \E chunking_strategy \in Tabs.chunking, search_strategy \in Tabs.search :
        LET chat_id == ss[s].current_chat_id
            db1 == IF pc[s] = "line87"
                   THEN add_upload(db, chat_id, Path(chat_id, req[s].file))
                   ELSE db
        IN  \E h \in {RebuildUserStore(db1, disk, ss[s], chunking_strategy,
                                       sklearn_installed)} :
            \E g \in {get_retriever(vsm.admin_vectorstore, h.st.user_vector_store,
                                    search_strategy)} :
                /\ pc[s] \in {"line87", "line88"}
                /\ db' = db1
                /\ ss' = [ss EXCEPT ![s] =
                             IF h.raised THEN h.st
                             ELSE [h.st EXCEPT !.user_vector_store = g.user_vs,
                                               !.rag_chain = get_rag_chain(g.retriever)]]
                /\ pc' = [pc EXCEPT ![s] = IF h.raised THEN "raised" ELSE "idle"]
                /\ req' = [req EXCEPT ![s].built = ~h.raised]
                /\ UNCHANGED <<admin_listing, persisted, sklearn_installed, disk,
                               vsm, user_vs, retriever, last_call>>

\* the page of a chat without uploads, as line 158 leaves it
ChatPage(st, chat_id) ==
    [st EXCEPT !.current_chat_id = chat_id,
               !.chat_history = <<>>,
               !.rag_chain = get_rag_chain(
                   get_retriever(ManagerOfEmptyDir.admin_vectorstore, NoneVS,
                                 DEFAULT_SEARCH_STRATEGY).retriever)]

\* both tabs show chat 1: the first tab had it created after the login, the
\* second had chat 2 created and then selected chat 1
InitUploads ==
    /\ admin_listing = <<>>
    /\ sklearn_installed = TRUE
    /\ persisted = NotPersisted
    /\ disk = {}
    /\ vsm = ManagerOfEmptyDir
    /\ user_vs = NoneVS
    /\ retriever = NoRetriever
    /\ last_call = NoCall
    /\ db = create_chat(create_chat(signup(EmptyDb, "alice", "pw").db, 1).db, 1).db
    /\ ss = [s \in Sessions |->
                ChatPage([SessionDefaults EXCEPT !.logged_in = TRUE, !.user_id = 1],
                         1)]
    /\ pc = [s \in Sessions |-> "idle"]
    /\ req = [s \in Sessions |->
                 [NoRequest EXCEPT !.event = IF s = 1 THEN "none" ELSE "select",
                                   !.built = TRUE]]

NextUploads ==
    \/ \E s \in Sessions : UploadBegin(s)
    \/ \E s \in Sessions : UploadEnd(s)

SpecUploads == InitUploads /\ [][NextUploads]_vars

\* C23: the upload registry holds no (chat_id, file_path) pair twice:
\* get_uploads_for_chat(c) lists every path once at most, whatever the
\* interleaving of the sessions that upload to c.
C23_UploadRecordedOnce ==
    \A c \in 1..db.last_chat_id :
        LET paths == get_uploads_for_chat(db, c)
        IN  \A i, j \in 1..Len(paths) : paths[i] = paths[j] => i = j

\* C25: every row of messages and every row of uploads has the chat_id of a
\* row of chats; nothing is left of, or added to, a deleted chat.
C25_RowsOfExistingChats ==
    /\ \A i \in 1..Len(db.messages) : db.messages[i].chat_id \in ChatIds(db)
    /\ \A i \in 1..Len(db.uploads) : db.uploads[i].chat_id \in ChatIds(db)

====
